---------------------------- MODULE Spec2Model ----------------------------
(***************************************************************************)
(* A model of drf_operation_log: the diff engine of utils.py               *)
(* (serializer_changed_data_diff, serializer_data_diff, the redaction and  *)
(* exclusion helpers) and the places of mixins.py / serializers.py that    *)
(* compose it.                                                             *)
(*                                                                         *)
(* Encoding of Python values.  Every scalar is a TLA+ string:              *)
(*   "None" "True" "False"  the Python constants                           *)
(*   "0" "1" "2" "3"        Python ints (choice codes, primary keys)       *)
(*   ""                     the empty str (also: a field without label)    *)
(*   "MISSING"              utils.missing_value, the object() sentinel     *)
(*   anything else          a non-empty Python str                         *)
(* An ordered dict is a sequence of [k, v] entries in insertion order.     *)
(* A diff document node is a record tagged by t:                           *)
(*   [t |-> "leaf", field, label, old_value, new_value]                    *)
(*   [t |-> "nested", field, label, nested]   {"field","label","nested"}   *)
(*   [t |-> "added"] [t |-> "deleted"]        {"added": []} {"deleted": []}*)
(*   [t |-> "changed", changed]               {"changed": [...]}           *)
(*   [t |-> "empty"]                          {}                           *)
(*   [t |-> "raise", exc]                     the call raised exc          *)
(***************************************************************************)
EXTENDS Naturals, Sequences, FiniteSets, TLC

VARIABLES
    old_data,       \* serializer_changed_data_diff: argument old_data
    new_data,       \* serializer_changed_data_diff: argument new_data
    trans_dic,      \* serializer_changed_data_diff: argument trans_dic
    ret,            \* serializer_changed_data_diff: what the call returned
    leaf_pc,        \* "ready" before the call, "done" after it, "idle" when unused
    serializer,     \* the update's serializer: its declared fields
    instance,       \* serializer.instance: the record before the write
    validated_data, \* serializer.validated_data: the new state
    sensitive_log_fields, \* what the view's get_sensitive_log_fields returns
    change_message, \* what serializer_data_diff returned
    operation_logs, \* the view's accumulator: the entries built by _initial_log
    pc,             \* "start", "diffed", "logged"; "idle" when unused
    stored,         \* the change_message of the log entry's database row
    entry,          \* the change_message of the OperationLogEntry object read from it
    excluded_fields,      \* what the view's get_excluded_log_fields returns
    excluded_log_fields,  \* the serializer context's "excluded_log_fields"
    paginated,      \* whether paginate_queryset returns a page
    response,       \* what the read returned: [t, change_message]
    read_pc,        \* "stored", then "responded" or "serialized"; "idle" when unused
    method,         \* request.method of the request of a lifecycle
    action,         \* self.action of the view
    operationlog_action_exclude, \* the view's operationlog_action_exclude
    save_database,  \* settings.DRF_OPERATION_LOG_SAVE_DATABASE (True when unset)
    has_operation_logs,   \* hasattr(self, "operation_logs")
    hooks,          \* how many perform_* calls the handler has made
    raised,         \* the exception the handler ended with, or "none"
    events,         \* what the perform_* calls did to the record, in order
    appended,       \* every entry ever appended to operation_logs, in order
    signalled,      \* the entries sent with operation_logs_pre_save, in order
    bulk_created,   \* the entries handed to bulk_create, in order
    response_exception,   \* response.exception of the response being finalized
    life_pc         \* "new", "handling", "finalized"; "idle" when unused

leaf_vars == <<old_data, new_data, trans_dic, ret, leaf_pc>>

diff_vars == <<serializer, instance, validated_data, sensitive_log_fields,
               change_message, operation_logs, pc>>

read_vars == <<stored, entry, excluded_fields, excluded_log_fields, paginated,
               response, read_pc>>

life_vars == <<method, action, operationlog_action_exclude, save_database,
               has_operation_logs, hooks, raised, events, appended, signalled,
               bulk_created, response_exception, life_pc>>

vars == <<leaf_vars, diff_vars, read_vars, life_vars>>

\* ------------------------------------------------------------------ bounds
\* The longest flattened map handed to the leaf diff.
MaxFields == 2

\* --------------------------------------------------------- Python helpers
missing_value == "MISSING"

CLEANED_SUBSTITUTE == "******"

\* bool(v) of an encoded scalar: None, False, 0 and "" are falsy; the
\* object() sentinel and every other value are truthy.
Truthy(v) == v \notin {"None", "False", "0", ""}

Min(a, b) == IF a < b THEN a ELSE b

\* k in d, and d[k], for an ordered dict d.
has_key(d, k) == \E i \in 1..Len(d) : d[i].k = k

dict_get(d, k) == d[CHOOSE i \in 1..Len(d) : d[i].k = k].v

\* list(d.keys())
dict_keys(d) == [i \in 1..Len(d) |-> d[i].k]

\* str.lower() on the names the model uses.
Lower(s) ==
    CASE s = "Password" -> "password"
      [] s = "PASSWORD" -> "password"
      [] s = "Token" -> "token"
      [] s = "Phone" -> "phone"
      [] s = "Qty" -> "qty"
      [] OTHER -> s

\* ------------------------------------------------------------- redaction
\* The SENSITIVE_FIELDS literal of clean_sensitive_data and clean_data.
BASELINE_SENSITIVE_FIELDS ==
    {"api", "token", "key", "secret", "password", "signature"}

\* SENSITIVE_FIELDS as clean_sensitive_data builds it: the baseline, and the
\* caller's names lower-cased when the call was given any.
SENSITIVE_FIELDS(sensitive_fields) ==
    BASELINE_SENSITIVE_FIELDS \cup {Lower(f) : f \in sensitive_fields}

\* The test of utils.py:132-135: field and label are looked up as they are.
is_sensitive(data, names) == data.field \in names \/ data.label \in names

RECURSIVE clean_sensitive_list(_)
RECURSIVE clean_sensitive_data(_, _)

\* clean_sensitive_data on a list: each element is cleaned by a recursive
\* call that passes no sensitive_fields, so the default {} applies.
clean_sensitive_list(data) ==
    [i \in 1..Len(data) |-> clean_sensitive_data(data[i], {})]

\* clean_sensitive_data on a dict: it updates the dict in place; the value
\* here is the dict after the call.
clean_sensitive_data(data, sensitive_fields) ==
    CASE data.t = "changed" ->
            [data EXCEPT !.changed = clean_sensitive_list(data.changed)]
      [] data.t = "nested" ->
            [data EXCEPT !.nested = clean_sensitive_list(data.nested)]
      [] data.t = "leaf" ->
            IF is_sensitive(data, SENSITIVE_FIELDS(sensitive_fields))
            THEN [data EXCEPT !.old_value = CLEANED_SUBSTITUTE,
                              !.new_value = CLEANED_SUBSTITUTE]
            ELSE data
      [] OTHER -> data

\* -------------------------------------------------------------- leaf diff
\* A variant that never falls back to the path.
field_label_no_fallback(field, k_new) == field.label

\* label = field.label or k_new
field_label(field, k_new) ==
    IF Truthy(field.label) THEN field.label ELSE k_new

\* v_mapping.get(v) or v
mapping_get_or(v_mapping, v) ==
    IF has_key(v_mapping, v) /\ Truthy(dict_get(v_mapping, v))
    THEN dict_get(v_mapping, v)
    ELSE v

\* The two display strings of a BooleanField (utils.py:171), U+662F and
\* U+5426, written in ASCII.
YES == "yes"

NO == "no"

\* A variant that reports the raw value.
bool_display_raw(v) == v

\* YES if v else NO
bool_display(v) == IF Truthy(v) THEN YES ELSE NO

\* The value compared and reported for v under its field: the ChoiceField
\* branch, else the BooleanField branch, else v as it is.  (The Manager
\* branch between them applies to related managers only, never to a scalar.)
display_value(field, v) ==
    CASE field.kind = "Choice" -> mapping_get_or(field.choices, v)
      [] field.kind = "Boolean" -> bool_display(v)
      [] OTHER -> v

\* if v_old == v_new or v_old == missing_value: continue
\* (v_old and v_new are the values after the branches above)
skip_field(v_old, v_new) == v_old = v_new \/ v_old = missing_value

\* The body of the try block for one key: the messages it appends to
\* changed_list (none on a KeyError of trans_dic[k_new]).
changed_msgs(trans, k_new, v_old, v_new) ==
    IF ~has_key(trans, k_new) THEN <<>>
    ELSE LET field == dict_get(trans, k_new)
             label == field_label(field, k_new)
             d_old == display_value(field, v_old)
             d_new == display_value(field, v_new)
         IN  IF skip_field(d_old, d_new) THEN <<>>
             ELSE << clean_sensitive_data(
                        [t |-> "leaf", field |-> k_new, label |-> label,
                         old_value |-> d_old, new_value |-> d_new], {}) >>

\* The number of pairs zip(old_data.items(), new_data.items()) yields.
zip_len(old, new) == Min(Len(old), Len(new))

RECURSIVE changed_data_loop(_, _, _, _, _)
\* The for loop from its i-th iteration on, with changed_list so far.
changed_data_loop(old, new, trans, i, changed_list) ==
    IF i > zip_len(old, new)
    THEN IF changed_list = <<>> THEN [t |-> "empty"]
         ELSE [t |-> "changed", changed |-> changed_list]
    ELSE IF old[i].k # new[i].k
         THEN [t |-> "raise", exc |-> "ValueError"]
         ELSE changed_data_loop(old, new, trans, i + 1,
                  changed_list \o changed_msgs(trans, new[i].k, old[i].v, new[i].v))

serializer_changed_data_diff(old, new, trans) ==
    changed_data_loop(old, new, trans, 1, <<>>)

\* main_diff.get("changed", list())
changed_of(r) == IF r.t = "changed" THEN r.changed ELSE <<>>

\* ============================================================ the update
\* A Python value is a record [t, v]:
\*   t = "val"   a scalar, v its encoding
\*   t = "obj"   a model instance, v the ordered dict of its attributes
\*   t = "mgr"   a related manager, v the list of the objects .all() yields
\*   t = "dict"  an OrderedDict of validated data, v its entries
\*   t = "list"  a list of validated child dicts, v its elements
\* A serializer field is [source, label, kind, read_only, choices, child];
\* kind is Plain, Boolean, Choice, Serializer (a nested serializer) or List
\* (a ListSerializer); child is [fields, pk]: the child serializer's fields
\* and the name of its Meta.model primary key ("" when it has none).

attribute_sep == ">"

PyNone == [t |-> "val", v |-> "None"]

\* The value handed to the leaf diff: a scalar by its encoding, any other
\* object as it is.
as_value(pv) == IF pv.t = "val" THEN pv.v ELSE pv

\* bool(pv): a model instance, a manager and a non-empty container are truthy.
PyTruthy(pv) ==
    CASE pv.t = "val" -> Truthy(pv.v)
      [] pv.t \in {"dict", "list"} -> pv.v # <<>>
      [] OTHER -> TRUE

\* The attribute names a path is made of.
AttrNames == {"name", "profile", "active", "password", "pwd", "Password",
              "created", "items", "id", "qty"}

\* sep.join(segs)
RECURSIVE join_path(_)
join_path(segs) ==
    IF Len(segs) = 1 THEN segs[1]
    ELSE segs[1] \o attribute_sep \o join_path(Tail(segs))

\* concat_attr.split(sep): the segments that join back to concat_attr (no
\* attribute name contains the separator).
split_path(concat_attr) ==
    IF concat_attr \in AttrNames THEN <<concat_attr>>
    ELSE CHOOSE segs \in [1..2 -> AttrNames] : join_path(segs) = concat_attr

\* getattr(o, attr) raises AttributeError unless o is an object with attr.
has_attr(o, attr) == o.t = "obj" /\ has_key(o.v, attr)

RECURSIVE split_get_loop(_, _)
split_get_loop(o, segs) ==
    IF segs = <<>> THEN o
    ELSE IF ~has_attr(o, Head(segs)) THEN [t |-> "val", v |-> missing_value]
         ELSE split_get_loop(dict_get(o.v, Head(segs)), Tail(segs))

split_get(o, concat_attr) == split_get_loop(o, split_path(concat_attr))

\* serializer_meta_model._meta.pk (its name), or "" for None.
get_primary_key(child) == child.pk

\* {f.source: f for f in fields.values() if f.source != "*"}
get_source_fields(fields) ==
    LET kept == SelectSeq(fields, LAMBDA f : f.source # "*")
    IN  [i \in 1..Len(kept) |-> [k |-> kept[i].source, v |-> kept[i]]]

\* The entry of many_fields for a field f, or none.
many_field_entry(f) ==
    IF /\ f.source # "*"
       /\ f.kind = "List"
       /\ ~f.read_only
       /\ get_primary_key(f.child) # ""
       /\ get_source_fields(f.child.fields) # <<>>
       /\ has_key(get_source_fields(f.child.fields), get_primary_key(f.child))
    THEN << [k |-> f.source,
             v |-> [fields |-> get_source_fields(f.child.fields),
                    pk |-> get_primary_key(f.child),
                    label |-> IF Truthy(f.label) THEN f.label ELSE f.source]] >>
    ELSE <<>>

RECURSIVE get_many_fields_loop(_, _)
get_many_fields_loop(fields, i) ==
    IF i > Len(fields) THEN <<>>
    ELSE many_field_entry(fields[i]) \o get_many_fields_loop(fields, i + 1)

get_many_fields(ser) == get_many_fields_loop(ser.fields, 1)

\* new_key = parent_key + sep + k if parent_key else k
new_key(parent_key, k) ==
    IF parent_key # "" THEN parent_key \o attribute_sep \o k ELSE k

RECURSIVE flatten_fields(_, _, _, _)
\* flatten_dict over a dict of serializer fields.
flatten_fields(d, parent_key, exclude_fields, level) ==
    IF d = <<>> THEN <<>>
    ELSE LET k == Head(d).k
             v == Head(d).v
             rest == flatten_fields(Tail(d), parent_key, exclude_fields, level)
         IN  CASE v.read_only -> rest
               [] v.kind = "Serializer" ->
                    flatten_fields(get_source_fields(v.child.fields),
                                   new_key(parent_key, k), {}, level + 1) \o rest
               [] /\ exclude_fields # {} /\ k \in exclude_fields
                  /\ v.kind = "List" /\ level = 1 -> rest
               [] OTHER -> <<[k |-> new_key(parent_key, k), v |-> v]>> \o rest

RECURSIVE flatten_data(_, _)
\* flatten_dict over validated data: a nested OrderedDict is expanded, every
\* other value (a list of child dicts too: it is no ListSerializer) is kept.
flatten_data(d, parent_key) ==
    IF d = <<>> THEN <<>>
    ELSE LET k == Head(d).k
             v == Head(d).v
             rest == flatten_data(Tail(d), parent_key)
         IN  IF v.t = "dict"
             THEN flatten_data(v.v, new_key(parent_key, k)) \o rest
             ELSE <<[k |-> new_key(parent_key, k), v |-> v]>> \o rest

\* d.get(k): None when d has no k.
dict_get_or_none(d, k) == IF has_key(d, k) THEN dict_get(d, k) ELSE PyNone

\* d without the key k (d.pop(k, None)).
dict_without(d, k) == SelectSeq(d, LAMBDA e : e.k # k)

\* {k: split_get(o, k) for k in message}, with the values the leaf diff gets.
old_message_of(o, message) ==
    [i \in 1..Len(message) |->
        [k |-> message[i].k, v |-> as_value(split_get(o, message[i].k))]]

\* The message with the values the leaf diff gets.
message_values(message) ==
    [i \in 1..Len(message) |-> [k |-> message[i].k, v |-> as_value(message[i].v)]]

\* {getattr(d, pk): d for d in old_k_data_list}
old_data_dict(old_k_data_list, pk) ==
    [i \in 1..Len(old_k_data_list) |->
        [k |-> dict_get(old_k_data_list[i].v, pk).v, v |-> old_k_data_list[i]]]

\* A variant that takes every child as carrying a primary key.
no_primary_key_unchecked(primary_key) == FALSE

\* if not primary_key: the child counts as new
no_primary_key(primary_key) == ~PyTruthy(primary_key)

\* One iteration of the loop over the new children (utils.py:232-255): the
\* map of old children and the entries after it.
reconcile_child(st, new_d, mf) ==
    LET primary_key == dict_get_or_none(new_d.v, mf.pk)
        new_d_message == dict_without(flatten_data(new_d.v, ""), mf.pk)
    IN  IF no_primary_key(primary_key)
        THEN [st EXCEPT !.child_changed_list = @ \o <<[t |-> "added"]>>]
        ELSE IF ~has_key(st.old_k_data_dict, primary_key.v)
             THEN st
             ELSE LET old_d == dict_get(st.old_k_data_dict, primary_key.v)
                      child_diff ==
                          serializer_changed_data_diff(
                              old_message_of(old_d, new_d_message),
                              message_values(new_d_message),
                              flatten_fields(mf.fields, "", {}, 2))
                  \* (a primary key given as a model instance is replaced by
                  \* its pk first; the keys here are plain values)
                  IN  [old_k_data_dict |-> dict_without(st.old_k_data_dict, primary_key.v),
                       child_changed_list |->
                           IF child_diff.t = "empty" THEN st.child_changed_list
                           ELSE st.child_changed_list \o <<child_diff>>]

RECURSIVE reconcile_loop(_, _, _, _)
reconcile_loop(st, new_k_data_list, i, mf) ==
    IF i > Len(new_k_data_list) THEN st
    ELSE reconcile_loop(reconcile_child(st, new_k_data_list[i], mf),
                        new_k_data_list, i + 1, mf)

\* One {"deleted": []} for every old child left in the map (utils.py:258-260).
deleted_entries(old_k_data_dict) ==
    [i \in 1..Len(old_k_data_dict) |-> [t |-> "deleted"]]

\* if not new_k_data_list: continue
skip_new_list(new_k_data_list) == ~PyTruthy(new_k_data_list)

\* The entries one repeatable field k appends to changed_list
\* (utils.py:212-265): none, or one nested node.
many_field_diff(inst, vdata, k, mf) ==
    LET new_k_data_list == dict_get_or_none(vdata, k)
        old_k_data_list == dict_get(inst.v, k)
    IN  IF skip_new_list(new_k_data_list) THEN <<>>
        ELSE IF ~PyTruthy(old_k_data_list) THEN <<>>
        ELSE LET st == reconcile_loop(
                          [old_k_data_dict |-> old_data_dict(old_k_data_list.v, mf.pk),
                           child_changed_list |-> <<>>],
                          new_k_data_list.v, 1, mf)
                 child_changed_list ==
                     st.child_changed_list \o deleted_entries(st.old_k_data_dict)
             IN  IF child_changed_list = <<>> THEN <<>>
                 ELSE <<[t |-> "nested", field |-> k, label |-> mf.label,
                         nested |-> child_changed_list]>>

RECURSIVE many_fields_diff(_, _, _, _)
many_fields_diff(inst, vdata, many_fields, i) ==
    IF i > Len(many_fields) THEN <<>>
    ELSE many_field_diff(inst, vdata, many_fields[i].k, many_fields[i].v)
            \o many_fields_diff(inst, vdata, many_fields, i + 1)

\* serializer_data_diff(serializer), with serializer.instance and
\* serializer.validated_data as inst and vdata: [] or [main_diff].
serializer_data_diff(ser, inst, vdata) ==
    LET many_fields == get_many_fields(ser)
        exclude == {many_fields[i].k : i \in 1..Len(many_fields)}
        new_message == flatten_data(vdata, "")
        old_message == old_message_of(inst, new_message)
        main_trans_dic == flatten_fields(get_source_fields(ser.fields), "", exclude, 1)
        main_diff == serializer_changed_data_diff(
                         old_message, message_values(new_message), main_trans_dic)
        changed_list ==
            IF many_fields = <<>> THEN changed_of(main_diff)
            ELSE changed_of(main_diff) \o many_fields_diff(inst, vdata, many_fields, 1)
    IN  IF changed_list = <<>> THEN <<>>
        ELSE <<[t |-> "changed", changed |-> changed_list]>>


\* ------------------------------------------------------- unused halves
\* The leaf-diff variables of a run that makes no direct leaf-diff call.
LeafIdle ==
    /\ old_data = <<>> /\ new_data = <<>> /\ trans_dic = <<>>
    /\ ret = [t |-> "none"] /\ leaf_pc = "idle"

\* The update variables of a run that performs no update.
DiffIdle ==
    /\ serializer = [fields |-> <<>>] /\ instance = [t |-> "val", v |-> "None"]
    /\ validated_data = <<>> /\ sensitive_log_fields = {}
    /\ change_message = <<>> /\ operation_logs = <<>> /\ pc = "idle"

\* The read variables of a run that reads no log entry.
ReadIdle ==
    /\ stored = <<>> /\ entry = <<>> /\ excluded_fields = <<>>
    /\ excluded_log_fields = <<>> /\ paginated = FALSE
    /\ response = [t |-> "none"] /\ read_pc = "idle"

\* The lifecycle variables of a run that follows no request.
LifeIdle ==
    /\ method = "GET" /\ action = "retrieve" /\ operationlog_action_exclude = {}
    /\ save_database = TRUE /\ has_operation_logs = FALSE /\ hooks = 0
    /\ raised = "none" /\ events = <<>> /\ appended = <<>> /\ signalled = <<>>
    /\ bulk_created = <<>> /\ response_exception = FALSE /\ life_pc = "idle"

\* ------------------------------------------------ inputs of the leaf diff
RoleChoices ==
    << [k |-> "1", v |-> "admin"], [k |-> "2", v |-> "user"], [k |-> "0", v |-> ""] >>

NoChoices == <<>>

\* A flattened schema: Plain with and without label, Boolean, Choice, and a
\* Boolean whose name is in the baseline.
LeafTransDic ==
    << [k |-> "name",   v |-> [label |-> "Name",   kind |-> "Plain",   choices |-> NoChoices]],
       [k |-> "nick",   v |-> [label |-> "",       kind |-> "Plain",   choices |-> NoChoices]],
       [k |-> "active", v |-> [label |-> "Active", kind |-> "Boolean", choices |-> NoChoices]],
       [k |-> "role",   v |-> [label |-> "Role",   kind |-> "Choice",  choices |-> RoleChoices]],
       [k |-> "api",    v |-> [label |-> "Api",    kind |-> "Boolean", choices |-> NoChoices]] >>

\* "extra" is a key of the data with no descriptor.
LeafKeys == {"name", "nick", "active", "role", "api", "extra"}

kind_of(k) == IF has_key(LeafTransDic, k) THEN dict_get(LeafTransDic, k).kind ELSE "Plain"

OldValues(k) ==
    CASE kind_of(k) = "Boolean" -> {"True", "False", "None", missing_value}
      [] kind_of(k) = "Choice" -> {"1", "3", "0", missing_value}
      [] OTHER -> {"A", "None", missing_value}

NewValues(k) ==
    CASE kind_of(k) = "Boolean" -> {"True", "False"}
      [] kind_of(k) = "Choice" -> {"1", "2", "3"}
      [] OTHER -> {"A", "B", "None"}

\* The key sequences of a dict: no key twice.
KeySeqs(n) == {s \in [1..n -> LeafKeys] : \A i, j \in 1..n : i # j => s[i] # s[j]}

\* The ordered dicts over the key sequence ks with values from vals(k).
DictsOver(ks, vals(_)) ==
    LET all == UNION {vals(k) : k \in LeafKeys}
        vss == {vs \in [1..Len(ks) -> all] : \A i \in 1..Len(ks) : vs[i] \in vals(ks[i])}
    IN  {[i \in 1..Len(ks) |-> [k |-> ks[i], v |-> vs[i]]] : vs \in vss}

\* One value per key for the maps whose key sequences differ: every aligned
\* pair of values is a change.
DefaultOld(k) ==
    CASE kind_of(k) = "Boolean" -> "False" [] kind_of(k) = "Choice" -> "1" [] OTHER -> "A"

DefaultNew(k) ==
    CASE kind_of(k) = "Boolean" -> "True" [] kind_of(k) = "Choice" -> "2" [] OTHER -> "B"

DictOf(ks, val(_)) == [i \in 1..Len(ks) |-> [k |-> ks[i], v |-> val(ks[i])]]

\* The key sequences that differ from ks: its strict prefix without the
\* last key, ks reversed (same content, other order), and ks with its last
\* key replaced by a key it does not hold (other content).
OtherKeySeqs(ks) ==
    IF ks = <<>> THEN {}
    ELSE {SubSeq(ks, 1, Len(ks) - 1)}
         \cup ({[i \in 1..Len(ks) |-> ks[Len(ks) + 1 - i]]} \ {ks})
         \cup {[ks EXCEPT ![Len(ks)] = k] :
                 k \in LeafKeys \ {ks[i] : i \in 1..Len(ks)}}

LeafInit ==
    /\ trans_dic = LeafTransDic
    /\ \E n \in 0..MaxFields : \E ks \in KeySeqs(n) :
          \/ /\ old_data \in DictsOver(ks, OldValues)
             /\ new_data \in DictsOver(ks, NewValues)
          \/ \E ks2 \in OtherKeySeqs(ks) :
                \/ old_data = DictOf(ks, DefaultOld) /\ new_data = DictOf(ks2, DefaultNew)
                \/ old_data = DictOf(ks2, DefaultOld) /\ new_data = DictOf(ks, DefaultNew)
    /\ ret = [t |-> "none"]
    /\ leaf_pc = "ready"
    /\ DiffIdle
    /\ ReadIdle
    /\ LifeIdle

\* A direct call serializer_changed_data_diff(old_data, new_data, None, trans_dic).
CallChangedDataDiff ==
    /\ leaf_pc = "ready"
    /\ ret' = serializer_changed_data_diff(old_data, new_data, trans_dic)
    /\ leaf_pc' = "done"
    /\ UNCHANGED <<old_data, new_data, trans_dic>>
    /\ UNCHANGED diff_vars
    /\ UNCHANGED read_vars
    /\ UNCHANGED life_vars

LeafNext == CallChangedDataDiff

SpecLeaf == LeafInit /\ [][LeafNext]_vars


\* ---------------------------------------------------------- clean_data
\* The strs among the values of the model that ast.literal_eval parses:
\* "['x']" spells a list, "\"['x']\"" spells the str "['x']".  Every other
\* value makes it raise ValueError or SyntaxError.
\* A variant that takes whatever literal_eval returned.
is_container_literal_unchecked(value) == value \in {"['x']", "\"['x']\""}

\* isinstance(value, (list, dict)) of what literal_eval returned.
is_container_literal(value) == value = "['x']"

\* What literal_eval returns (the list is written "<list ['x']>").
literal_eval_container(value) ==
    IF value = "\"['x']\"" THEN "['x']" ELSE "<list ['x']>"

\* What clean_data leaves under one key holding a scalar: the container a
\* literal str spells (cleaned: it holds nothing sensitive), else the value;
\* the mask when the key itself is a sensitive name.
clean_data_scalar(key, value, names) ==
    IF Lower(key) \in names THEN CLEANED_SUBSTITUTE
    ELSE IF is_container_literal(value) THEN literal_eval_container(value)
    ELSE value

RECURSIVE clean_data_list(_)
RECURSIVE clean_data(_, _)

\* clean_data on a list: [clean_data(d) for d in data], without the names.
clean_data_list(data) == [i \in 1..Len(data) |-> clean_data(data[i], {})]

\* clean_data on a dict: a copy with every key handled in turn.
clean_data(data, sensitive_fields) ==
    LET names == SENSITIVE_FIELDS(sensitive_fields)
    IN  CASE data.t = "changed" ->
                [data EXCEPT !.changed =
                    IF "changed" \in names THEN CLEANED_SUBSTITUTE
                    ELSE clean_data_list(data.changed)]
          [] data.t = "nested" ->
                [data EXCEPT
                    !.field = clean_data_scalar("field", data.field, names),
                    !.label = clean_data_scalar("label", data.label, names),
                    !.nested = IF "nested" \in names THEN CLEANED_SUBSTITUTE
                               ELSE clean_data_list(data.nested)]
          [] data.t = "leaf" ->
                [data EXCEPT
                    !.field = clean_data_scalar("field", data.field, names),
                    !.label = clean_data_scalar("label", data.label, names),
                    !.old_value = clean_data_scalar("old_value", data.old_value, names),
                    !.new_value = clean_data_scalar("new_value", data.new_value, names)]
          [] OTHER -> data

\* ---------------------------------------------------------- _initial_log
ADDITION == 1

CHANGE == 2

DELETION == 3

\* The change_message of the entry _initial_log builds from the
\* change_message it is given (<<>> for None or []).
initial_change_message(action_flag, message) ==
    IF message # <<>> THEN clean_data_list(message)
    ELSE CASE action_flag = ADDITION -> <<[t |-> "added"]>>
           [] action_flag = DELETION -> <<[t |-> "deleted"]>>
           [] OTHER -> <<>>

\* The OperationLogEntry _initial_log returns, by the two fields the diff
\* decides.
initial_log(action_flag, message) ==
    [action_flag |-> action_flag,
     change_message |-> initial_change_message(action_flag, message)]

\* ------------------------------------------------- inputs of the update
\* The most children a new snapshot of the repeatable field carries.
MaxChildren == 2

LeafField(source, label, kind, read_only) ==
    [source |-> source, label |-> label, kind |-> kind, read_only |-> read_only,
     choices |-> NoChoices, child |-> [fields |-> <<>>, pk |-> ""]]

\* The credential field of the serializer: named in the baseline, labelled
\* in the baseline, and the two in another casing.
SecretFields ==
    { LeafField("password", "Password", "Plain", FALSE),
      LeafField("pwd", "password", "Plain", FALSE),
      LeafField("pwd", "PASSWORD", "Plain", FALSE),
      LeafField("Password", "", "Plain", FALSE) }

ItemFields == << LeafField("id", "ID", "Plain", FALSE),
                 LeafField("qty", "Qty", "Plain", FALSE) >>

\* The serializer of the update: a plain field, a nested serializer with a
\* Boolean, a credential field, a read-only field, a field of source "*",
\* and a ListSerializer whose child declares its model's primary key.
SerializerWith(secret) ==
    [fields |->
        << LeafField("name", "Name", "Plain", FALSE),
           [source |-> "profile", label |-> "Profile", kind |-> "Serializer",
            read_only |-> FALSE, choices |-> NoChoices,
            child |-> [fields |-> <<LeafField("active", "Active", "Boolean", FALSE)>>,
                       pk |-> ""]],
           secret,
           LeafField("created", "Created", "Plain", TRUE),
           LeafField("*", "Summary", "Plain", FALSE),
           [source |-> "items", label |-> "Items", kind |-> "List",
            read_only |-> FALSE, choices |-> NoChoices,
            child |-> [fields |-> ItemFields, pk |-> "id"]] >>]

Val(v) == [t |-> "val", v |-> v]

Attr(k, pv) == [k |-> k, v |-> pv]

\* The stored children: primary keys 1 and 2, each with qty 2.
OldChild(id) == [t |-> "obj", v |-> <<Attr("id", Val(id)), Attr("qty", Val("2"))>>]

OldChildLists == { <<>>, <<OldChild("1")>>, <<OldChild("1"), OldChild("2")>> }

\* A new child: with a primary key (stored or not) or without one, and a qty.
NewChildren ==
    {[t |-> "dict", v |-> <<Attr("id", Val(id)), Attr("qty", Val(q))>>] :
        id \in {"1", "2"}, q \in {"2", "5"}}
    \cup {[t |-> "dict", v |-> <<Attr("qty", Val(q))>>] : q \in {"2", "5"}}

NewChildLists == UNION {[1..n -> NewChildren] : n \in 0..MaxChildren}

\* instance.profile: a related object, or None.
OldProfiles == { PyNone, [t |-> "obj", v |-> <<Attr("active", Val("True"))>>] }

DiffInit ==
    /\ LeafIdle
    /\ ReadIdle
    /\ LifeIdle
    /\ \E secret \in SecretFields, old_name \in {"B", "['x']"},
          old_secret \in {"\"['x']\"", "1", "s3"}, old_profile \in OldProfiles,
          old_items \in OldChildLists, new_active \in {"True", "False"},
          new_items \in NewChildLists :
          /\ serializer = SerializerWith(secret)
          /\ instance = [t |-> "obj", v |->
                << Attr("name", Val(old_name)),
                   Attr("profile", old_profile),
                   Attr(secret.source, Val(old_secret)),
                   Attr("created", Val("2020")),
                   Attr("items", [t |-> "mgr", v |-> old_items]) >>]
          /\ validated_data =
                << Attr("name", Val("B")),
                   Attr("profile", [t |-> "dict", v |-> <<Attr("active", Val(new_active))>>]),
                   Attr(secret.source, Val("s3")),
                   Attr("items", [t |-> "list", v |-> new_items]) >>
    /\ sensitive_log_fields \in {{}, {"name", "Qty"}}
    /\ change_message = <<>>
    /\ operation_logs = <<>>
    /\ pc = "start"

\* The call serializer_data_diff(serializer) of the function as utils.py:191
\* defines it: the diff of the serializer against its instance, taken before
\* the write.  (perform_update, mixins.py:107, hands it the view's sensitive
\* names as a second argument, which the function has no parameter for: see
\* PerformUpdate.)
SerializerDataDiff ==
    /\ pc = "start"
    /\ change_message' = serializer_data_diff(serializer, instance, validated_data)
    /\ pc' = "diffed"
    /\ UNCHANGED <<serializer, instance, validated_data, sensitive_log_fields,
                   operation_logs>>
    /\ UNCHANGED leaf_vars
    /\ UNCHANGED read_vars
    /\ UNCHANGED life_vars

\* What perform_update does with a diff (mixins.py:111-117): _initial_log
\* builds the entry (its change_message cleaned by clean_data) and the entry
\* joins operation_logs, from where finalize_response hands it to
\* bulk_create.
InitialLog ==
    /\ pc = "diffed"
    /\ operation_logs' = Append(operation_logs, initial_log(CHANGE, change_message))
    /\ pc' = "logged"
    /\ UNCHANGED <<serializer, instance, validated_data, sensitive_log_fields,
                   change_message>>
    /\ UNCHANGED leaf_vars
    /\ UNCHANGED read_vars
    /\ UNCHANGED life_vars

Next == SerializerDataDiff \/ InitialLog

Spec == DiffInit /\ [][Next]_vars


\* ============================================================== the read
\* The segments an exclusion entry is made of.
ExcludeSegments == {"name", "profile", "active", "Items", "items[]", "qty", "Price"}

RECURSIVE join_dot(_)
join_dot(segs) ==
    IF Len(segs) = 1 THEN segs[1] ELSE segs[1] \o "." \o join_dot(Tail(segs))

\* exclude_field.split("."): the segments that join back to the entry.
split_dot(exclude_field) ==
    IF exclude_field \in ExcludeSegments THEN <<exclude_field>>
    ELSE CHOOSE segs \in UNION {[1..n -> ExcludeSegments] : n \in 2..3} :
            join_dot(segs) = exclude_field

\* s.endswith("[]") and s.rstrip("[]") on the segments.
ends_with_brackets(seg) == seg = "items[]"

rstrip_brackets(seg) == IF seg = "items[]" THEN "items" ELSE seg

\* level_2_field_map after one more sub-field of level_1_field.
map_append(m, level_1_field, sub) ==
    IF has_key(m, level_1_field)
    THEN [i \in 1..Len(m) |->
            IF m[i].k = level_1_field THEN [m[i] EXCEPT !.v = Append(@, sub)] ELSE m[i]]
    ELSE Append(m, [k |-> level_1_field, v |-> <<sub>>])

\* One iteration of the loop of format_excluded_fields.
format_excluded_step(acc, exclude_field) ==
    LET exclude_path == split_dot(exclude_field)
        level == Len(exclude_path)
    IN  CASE level = 1 ->
                [acc EXCEPT !.level_1 = Append(@, exclude_path[1])]
          [] level = 2 /\ ends_with_brackets(exclude_path[1]) ->
                [acc EXCEPT !.level_2 =
                    map_append(@, rstrip_brackets(exclude_path[1]), exclude_path[2])]
          [] level = 2 /\ ~ends_with_brackets(exclude_path[1]) ->
                [acc EXCEPT !.level_1 =
                    Append(@, exclude_path[1] \o attribute_sep \o exclude_path[2])]
          [] OTHER -> acc

RECURSIVE format_excluded_loop(_, _, _)
format_excluded_loop(acc, excluded, i) ==
    IF i > Len(excluded) THEN acc
    ELSE format_excluded_loop(format_excluded_step(acc, excluded[i]), excluded, i + 1)

\* format_excluded_fields: [level_1: list, level_2: name -> list].
format_excluded_fields(excluded) ==
    format_excluded_loop([level_1 |-> <<>>, level_2 |-> <<>>], excluded, 1)

in_list(x, list) == \E i \in 1..Len(list) : list[i] = x

\* A variant that stops after its first pop: only the last excluded entry
\* of data is gone.
clean_excluded_list_one_pop(data, excluded) ==
    LET hit(i) == in_list(data[i].field, excluded) \/ in_list(data[i].label, excluded)
        hits == {i \in 1..Len(data) : hit(i)}
    IN  IF hits = {} THEN data
        ELSE LET last == CHOOSE i \in hits : \A j \in hits : j <= i
             IN  SubSeq(data, 1, last - 1) \o SubSeq(data, last + 1, Len(data))

\* _clean_excluded_fields: data after the entries whose field or label is
\* excluded were popped.  (Every entry of a changed list has both keys.)
clean_excluded_list(data, excluded) ==
    SelectSeq(data, LAMBDA e : ~(in_list(e.field, excluded) \/ in_list(e.label, excluded)))

\* The nested list of one repeatable field after its Changed entries were
\* cleaned (utils.py:384-389).
clean_nested(nested, level_2_excluded_fields) ==
    [i \in 1..Len(nested) |->
        IF nested[i].t = "changed" /\ nested[i].changed # <<>>
        THEN [nested[i] EXCEPT !.changed = clean_excluded_list(@, level_2_excluded_fields)]
        ELSE nested[i]]

\* The sub-exclusions found for an entry of the top-level changed list: by
\* its field, else by its label, else none (utils.py:371-379).
level_2_excluded_of(level_2_d, level_2_map) ==
    IF has_key(level_2_map, level_2_d.field) THEN dict_get(level_2_map, level_2_d.field)
    ELSE IF has_key(level_2_map, level_2_d.label) THEN dict_get(level_2_map, level_2_d.label)
    ELSE <<>>

\* One entry of the top-level changed list after utils.py:370-389.
clean_level_2(level_2_d, level_2_map) ==
    IF /\ level_2_excluded_of(level_2_d, level_2_map) # <<>>
       /\ level_2_d.t = "nested" /\ level_2_d.nested # <<>>
    THEN [level_2_d EXCEPT
            !.nested = clean_nested(@, level_2_excluded_of(level_2_d, level_2_map))]
    ELSE level_2_d

\* One element d of the document after utils.py:362-389.
clean_excluded_element(d, level_1, level_2_map) ==
    IF d.t = "changed" /\ d.changed # <<>>
    THEN LET level_1_changed == clean_excluded_list(d.changed, level_1)
         IN  [d EXCEPT !.changed =
                IF level_2_map # <<>>
                THEN [i \in 1..Len(level_1_changed) |->
                         clean_level_2(level_1_changed[i], level_2_map)]
                ELSE level_1_changed]
    ELSE d

\* clean_excluded_fields changes data in place; this is data after the call.
\* (The call itself returns None.)
clean_excluded_fields(data, level_1, level_2_map) ==
    IF level_1 # <<>>
    THEN [i \in 1..Len(data) |-> clean_excluded_element(data[i], level_1, level_2_map)]
    ELSE data

\* clean_deep_data is imported by serializers.py from utils, which does not
\* define it; the read path is given no other transformation than the
\* exclusion filter, so the document passes through it as it is.
clean_deep_data(data) == data

\* instance.change_message after OperationLogEntrySerializer.to_representation
\* (the filter works on the entry's own document).
to_representation_entry(change, context_excluded) ==
    IF change # <<>>
    THEN IF context_excluded # <<>>
         THEN clean_deep_data(
                 clean_excluded_fields(change,
                     format_excluded_fields(context_excluded).level_1,
                     format_excluded_fields(context_excluded).level_2))
         ELSE clean_deep_data(change)
    ELSE change

\* ---------------------------------------------------- inputs of the read
\* The most entries the nested list of a stored document carries.
MaxNested == 2

Leaf(field, label) ==
    [t |-> "leaf", field |-> field, label |-> label, old_value |-> "a", new_value |-> "b"]

TopLeafLists ==
    { <<>>, <<Leaf("name", "Name")>>,
      <<Leaf("name", "Name"), Leaf("profile>active", "Active")>> }

NestedEntries ==
    { [t |-> "added"], [t |-> "deleted"],
      [t |-> "changed", changed |-> <<Leaf("qty", "Qty")>>],
      [t |-> "changed", changed |-> <<Leaf("qty", "Qty"), Leaf("price", "Price")>>] }

NestedLists == UNION {[1..n -> NestedEntries] : n \in 1..MaxNested}

\* The documents a write stores: [] (nothing changed), [{"added": []}] of a
\* create, or one {"changed": [...]} of leaves and at most one nested field.
StoredDocuments ==
    { <<>>, <<[t |-> "added"]>> }
    \cup {<<[t |-> "changed", changed |-> top]>> : top \in TopLeafLists \ {<<>>}}
    \cup {<<[t |-> "changed", changed |->
               top \o <<[t |-> "nested", field |-> "items", label |-> "Items",
                         nested |-> nested]>>]>> :
            top \in TopLeafLists, nested \in NestedLists}

ExcludeEntries == <<"name", "profile.active", "Items", "items[].qty", "items[].Price">>

\* The exclusion lists: the entries of ExcludeEntries picked by a set of
\* positions, in their order.
ExcludeLists ==
    {SelectSeq(ExcludeEntries, LAMBDA e : \E i \in picks : ExcludeEntries[i] = e) :
        picks \in SUBSET (1..Len(ExcludeEntries))}

ReadInit ==
    /\ LeafIdle
    /\ DiffIdle
    /\ LifeIdle
    /\ stored \in StoredDocuments
    /\ entry = <<>>
    /\ excluded_fields \in {<<>>, <<"name">>}
    /\ excluded_log_fields \in ExcludeLists
    /\ paginated \in BOOLEAN
    /\ response = [t |-> "none"]
    /\ read_pc = "stored"

\* OperationLogMixin.operationlogs over the one entry of the resource.  The
\* serializer it builds has the view's default context, without
\* "excluded_log_fields".  Without a page and with exclusions the loop reads
\* q.changed_message, which no OperationLogEntry has: AttributeError.
Operationlogs ==
    /\ read_pc = "stored"
    /\ IF ~paginated /\ excluded_fields # <<>>
       THEN /\ entry' = stored
            /\ response' = [t |-> "raise", exc |-> "AttributeError"]
       ELSE /\ entry' = to_representation_entry(stored, <<>>)
            /\ response' = [t |-> "data",
                            change_message |-> to_representation_entry(stored, <<>>)]
    /\ read_pc' = "responded"
    /\ UNCHANGED <<stored, excluded_fields, excluded_log_fields, paginated>>
    /\ UNCHANGED leaf_vars
    /\ UNCHANGED diff_vars
    /\ UNCHANGED life_vars

\* OperationLogEntrySerializer(entry, context={"excluded_log_fields": ...}).data:
\* the entry is read from its row, to_representation filters its
\* change_message and the representation carries that same document.
SerializeEntry ==
    /\ read_pc = "stored"
    /\ entry' = to_representation_entry(stored, excluded_log_fields)
    /\ response' = [t |-> "data",
                    change_message |-> to_representation_entry(stored, excluded_log_fields)]
    /\ read_pc' = "serialized"
    /\ UNCHANGED <<stored, excluded_fields, excluded_log_fields, paginated>>
    /\ UNCHANGED leaf_vars
    /\ UNCHANGED diff_vars
    /\ UNCHANGED life_vars

ReadNext == Operationlogs \/ SerializeEntry

SpecRead == ReadInit /\ [][ReadNext]_vars

\* ================================================= the request lifecycle
\* One request to a view with OperationLogMixin: initial, the handler with
\* its perform_* calls, finalize_response.

\* The most perform_* calls one handler makes.
MaxHooks == 2

\* should_log: a write method and an action that is not excluded.
should_log(request_method, view_action, action_exclude) ==
    /\ request_method \in {"POST", "PUT", "PATCH", "DELETE"}
    /\ view_action \notin action_exclude

\* _get_action_flag; None for any other method.
get_action_flag(request_method) ==
    CASE request_method = "POST" -> ADDITION
      [] request_method \in {"PUT", "PATCH"} -> CHANGE
      [] request_method = "DELETE" -> DELETION
      [] OTHER -> 0

\* _get_action_name when _initial_log was given no serializer (as from
\* perform_create and perform_destroy): the three fixed names (U+65B0 U+589E,
\* U+7F16 U+8F91, U+5220 U+9664, written in ASCII); for any other action
\* under PUT or PATCH the test '"action" in serializer.fields' fails on
\* None; else the name the action was declared with.
get_action_name(request_method, view_action) ==
    CASE view_action = "create" -> "add"
      [] view_action \in {"update", "partial_update"} -> "edit"
      [] view_action = "destroy" -> "delete"
      [] get_action_flag(request_method) = CHANGE -> "AttributeError"
      [] OTHER -> "name of " \o view_action

\* _initial_log(request, instance) and _initial_log(request, instance,
\* new_message=...): no change_message is given or built; the entry, or the
\* exception _get_action_name ends with.
initial_log_entry(request_method, view_action) ==
    IF get_action_name(request_method, view_action) = "AttributeError"
    THEN [t |-> "raise", exc |-> "AttributeError"]
    ELSE [t |-> "entry",
          action |-> view_action,
          action_name |-> get_action_name(request_method, view_action),
          action_flag |-> get_action_flag(request_method),
          change_message |->
              initial_log(get_action_flag(request_method), <<>>).change_message]

Methods == {"GET", "POST", "PUT", "PATCH", "DELETE"}

\* The four actions of the model viewset and one declared with @action.
Actions == {"create", "update", "partial_update", "destroy", "approve"}

LifeInit ==
    /\ LeafIdle
    /\ DiffIdle
    /\ ReadIdle
    /\ method \in Methods
    /\ action \in Actions
    /\ operationlog_action_exclude \in SUBSET {"destroy", "approve"}
    /\ save_database \in BOOLEAN
    /\ has_operation_logs = FALSE
    /\ hooks = 0
    /\ raised = "none"
    /\ events = <<>> /\ appended = <<>> /\ signalled = <<>> /\ bulk_created = <<>>
    /\ response_exception = FALSE
    /\ life_pc = "new"

life_unchanged ==
    /\ UNCHANGED <<method, action, operationlog_action_exclude, save_database>>
    /\ UNCHANGED <<serializer, instance, validated_data, sensitive_log_fields,
                   change_message, pc>>
    /\ UNCHANGED leaf_vars
    /\ UNCHANGED read_vars

\* initial: a fresh accumulator, then the inherited checks, which may deny
\* the request.
Initial ==
    /\ life_pc = "new"
    /\ operation_logs' = <<>>
    /\ has_operation_logs' = TRUE
    /\ raised' \in {"none", "PermissionDenied"}
    /\ life_pc' = "handling"
    /\ UNCHANGED <<hooks, events, appended, signalled, bulk_created, response_exception>>
    /\ life_unchanged

\* A perform_* call is made by a handler that is still running.
HookEnabled == life_pc = "handling" /\ raised = "none" /\ hooks < MaxHooks

\* The part perform_create and perform_destroy share: the entry is built
\* and appended, or _initial_log raises.
log_entry_appended ==
    /\ operation_logs' = Append(operation_logs, initial_log_entry(method, action))
    /\ appended' = Append(appended, initial_log_entry(method, action))

\* perform_create: the record is created, then logged.
PerformCreate ==
    /\ HookEnabled
    /\ hooks' = hooks + 1
    /\ events' = Append(events, "create")
    /\ IF should_log(method, action, operationlog_action_exclude)
       THEN IF initial_log_entry(method, action).t = "raise"
            THEN /\ raised' = initial_log_entry(method, action).exc
                 /\ UNCHANGED <<operation_logs, appended>>
            ELSE /\ log_entry_appended
                 /\ UNCHANGED raised
       ELSE UNCHANGED <<operation_logs, appended, raised>>
    /\ UNCHANGED <<has_operation_logs, signalled, bulk_created, response_exception, life_pc>>
    /\ life_unchanged

\* perform_update: with logging, the call serializer_data_diff(serializer,
\* self.get_sensitive_log_fields(request)) gives two arguments to a function
\* of one parameter and raises TypeError before anything is read; without
\* logging the inherited perform_update writes the record.
PerformUpdate ==
    /\ HookEnabled
    /\ hooks' = hooks + 1
    /\ IF should_log(method, action, operationlog_action_exclude)
       THEN /\ raised' = "TypeError"
            /\ events' = Append(events, "update raised")
       ELSE /\ events' = Append(events, "update")
            /\ UNCHANGED raised
    /\ UNCHANGED <<operation_logs, appended, has_operation_logs, signalled,
                   bulk_created, response_exception, life_pc>>
    /\ life_unchanged

\* perform_destroy: logged first, then the record is deleted.
PerformDestroy ==
    /\ HookEnabled
    /\ hooks' = hooks + 1
    /\ IF should_log(method, action, operationlog_action_exclude)
       THEN IF initial_log_entry(method, action).t = "raise"
            THEN /\ raised' = initial_log_entry(method, action).exc
                 /\ UNCHANGED <<operation_logs, appended, events>>
            ELSE /\ log_entry_appended
                 /\ events' = Append(events, "destroy")
                 /\ UNCHANGED raised
       ELSE /\ events' = Append(events, "destroy")
            /\ UNCHANGED <<operation_logs, appended, raised>>
    /\ UNCHANGED <<has_operation_logs, signalled, bulk_created, response_exception, life_pc>>
    /\ life_unchanged

\* finalize_response, for the response of the handler or the one made for
\* its exception (response.exception is set on that one; a handler that
\* raised nothing may still return an error response).  It may come before
\* this class's initial ran, when an earlier initial denied the request.
FinalizeResponse ==
    /\ life_pc \in {"new", "handling"}
    /\ \E exception \in BOOLEAN :
          /\ (raised # "none" \/ life_pc = "new") => exception
          /\ response_exception' = exception
          /\ IF has_operation_logs /\ ~exception
             THEN /\ signalled' = signalled \o operation_logs
                  /\ bulk_created' =
                        IF save_database THEN bulk_created \o operation_logs
                        ELSE bulk_created
                  /\ operation_logs' = <<>>
             ELSE UNCHANGED <<signalled, bulk_created, operation_logs>>
    /\ life_pc' = "finalized"
    /\ UNCHANGED <<has_operation_logs, hooks, raised, events, appended>>
    /\ life_unchanged

LifeNext ==
    \/ Initial
    \/ PerformCreate
    \/ PerformUpdate
    \/ PerformDestroy
    \/ FinalizeResponse

SpecLife == LifeInit /\ [][LifeNext]_vars

\* ------------------------------------------------- claims on the leaf diff
SameKeySequence == dict_keys(old_data) = dict_keys(new_data)

AllOldResolved == \A i \in 1..Len(old_data) : old_data[i].v # missing_value

\* Normalization as the specification words it: a Choice code is replaced by
\* its display when the mapping has an entry for it, a Boolean by yes/no.
NormalizedPerSpec(field, v) ==
    CASE field.kind = "Choice" ->
            IF has_key(field.choices, v) THEN dict_get(field.choices, v) ELSE v
      [] field.kind = "Boolean" -> IF v = "True" THEN YES ELSE NO
      [] OTHER -> v

\* Key k has a descriptor and its normalized old and new values differ.
DiffersPerSpec(k) ==
    /\ has_key(trans_dic, k)
    /\ NormalizedPerSpec(dict_get(trans_dic, k), dict_get(old_data, k))
         # NormalizedPerSpec(dict_get(trans_dic, k), dict_get(new_data, k))

ExpectedChangedKeys == SelectSeq(dict_keys(new_data), DiffersPerSpec)

ExpectedLabel(k) ==
    IF dict_get(trans_dic, k).label = "" THEN k ELSE dict_get(trans_dic, k).label

\* C5: with identical key sequences and every old value resolved, the leaf
\* diff returns exactly one record per key that has a descriptor and whose
\* normalized values differ, in the maps' order, labelled by the descriptor's
\* label or else by the path; it returns {} when nothing differs.
C5_LeafDiffExact ==
    (leaf_pc = "done" /\ SameKeySequence /\ AllOldResolved) =>
        /\ ret.t \in {"empty", "changed"}
        /\ (ret.t = "empty") <=> (ExpectedChangedKeys = <<>>)
        /\ Len(changed_of(ret)) = Len(ExpectedChangedKeys)
        /\ \A i \in 1..Len(changed_of(ret)) :
              /\ changed_of(ret)[i].t = "leaf"
              /\ changed_of(ret)[i].field = ExpectedChangedKeys[i]
              /\ changed_of(ret)[i].label = ExpectedLabel(ExpectedChangedKeys[i])

\* Two records in schema order, the second labelled by its own path.
C5_Witness ==
    /\ leaf_pc = "done" /\ SameKeySequence /\ AllOldResolved
    /\ Len(changed_of(ret)) = 2
    /\ changed_of(ret)[1].field = "name" /\ changed_of(ret)[1].label = "Name"
    /\ changed_of(ret)[2].field = "nick" /\ changed_of(ret)[2].label = "nick"

\* The record the diff returned for key k, if any.
HasRecord(k) == \E i \in 1..Len(changed_of(ret)) : changed_of(ret)[i].field = k

RecordOf(k) == changed_of(ret)[CHOOSE i \in 1..Len(changed_of(ret)) : changed_of(ret)[i].field = k]

IsKind(k, kind) == has_key(trans_dic, k) /\ dict_get(trans_dic, k).kind = kind

\* C6: for a Choice field whose old value was resolved, a differing pair is
\* reported, with each value the display of its code when the mapping has an
\* entry for the code and the raw code when it has none; the call never raises.
C6_ChoiceDisplayOrRawCode ==
    (leaf_pc = "done" /\ SameKeySequence) =>
        /\ ret.t # "raise"
        /\ \A i \in 1..Len(new_data) :
              LET k == new_data[i].k
              IN  (IsKind(k, "Choice") /\ old_data[i].v # missing_value
                     /\ DiffersPerSpec(k)) =>
                    /\ HasRecord(k)
                    /\ RecordOf(k).old_value
                         = NormalizedPerSpec(dict_get(trans_dic, k), old_data[i].v)
                    /\ RecordOf(k).new_value
                         = NormalizedPerSpec(dict_get(trans_dic, k), new_data[i].v)

\* The record of a Boolean field is masked exactly when its path or label is
\* a baseline sensitive name.
BaselineNamed(r) ==
    r.field \in BASELINE_SENSITIVE_FIELDS \/ r.label \in BASELINE_SENSITIVE_FIELDS

\* C7 as stated: every record of a Boolean field carries the yes/no strings.
C7_BooleanAlwaysYesNo ==
    leaf_pc = "done" =>
        \A i \in 1..Len(changed_of(ret)) :
            IsKind(changed_of(ret)[i].field, "Boolean") =>
                /\ changed_of(ret)[i].old_value \in {YES, NO}
                /\ changed_of(ret)[i].new_value \in {YES, NO}

\* C7 amended: every record of a Boolean field carries the yes/no strings,
\* or the mask token in both values when its path or label is a baseline
\* sensitive name; it never carries a raw boolean or None.  A resolved
\* False -> True of a field that is not sensitive is reported as no -> yes.
C7_BooleanYesNoOrMasked ==
    leaf_pc = "done" =>
        /\ \A i \in 1..Len(changed_of(ret)) :
              LET r == changed_of(ret)[i]
              IN  IsKind(r.field, "Boolean") =>
                    IF BaselineNamed(r)
                    THEN r.old_value = CLEANED_SUBSTITUTE /\ r.new_value = CLEANED_SUBSTITUTE
                    ELSE r.old_value \in {YES, NO} /\ r.new_value \in {YES, NO}
        /\ \A i \in 1..Min(Len(old_data), Len(new_data)) :
              (/\ ret.t # "raise"
               /\ IsKind(new_data[i].k, "Boolean")
               /\ old_data[i].k = new_data[i].k
               /\ new_data[i].k \notin BASELINE_SENSITIVE_FIELDS
               /\ old_data[i].v = "False" /\ new_data[i].v = "True") =>
                  /\ HasRecord(new_data[i].k)
                  /\ RecordOf(new_data[i].k).old_value = NO
                  /\ RecordOf(new_data[i].k).new_value = YES

\* A Boolean field went False -> True and is reported no -> yes.
C7_Witness ==
    /\ leaf_pc = "done"
    /\ has_key(old_data, "active") /\ dict_get(old_data, "active") = "False"
    /\ has_key(new_data, "active") /\ dict_get(new_data, "active") = "True"
    /\ HasRecord("active")
    /\ RecordOf("active").old_value = NO /\ RecordOf("active").new_value = YES

\* --------------------------------------------------- claims on the update
\* The top-level entries of the diff serializer_data_diff returned.
MainChanged == IF change_message = <<>> THEN <<>> ELSE change_message[1].changed

\* new_message and old_message of the main fields.
MainKeys == dict_keys(flatten_data(validated_data, ""))

OldIsMissing(k) ==
    split_get(instance, k).t = "val" /\ split_get(instance, k).v = missing_value

\* C1: the diff holds no ChangeRecord for a main field whose old value
\* split_get could not resolve (MISSING), whatever the field's kind and new
\* value.
C1_MissingNeverReported ==
    pc # "start" =>
        \A i \in 1..Len(MainKeys) :
            OldIsMissing(MainKeys[i]) =>
                ~\E j \in 1..Len(MainChanged) :
                    MainChanged[j].t = "leaf" /\ MainChanged[j].field = MainKeys[i]

\* The nested list the diff reports for the repeatable field items.
ItemsNested ==
    IF \E j \in 1..Len(MainChanged) : MainChanged[j].t = "nested"
    THEN MainChanged[CHOOSE j \in 1..Len(MainChanged) : MainChanged[j].t = "nested"].nested
    ELSE <<>>

CountOf(entries, tag) == Cardinality({i \in 1..Len(entries) : entries[i].t = tag})

NewItems == dict_get(validated_data, "items").v

OldItems == dict_get(instance.v, "items").v

OldKeys == {dict_get(OldItems[i].v, "id").v : i \in 1..Len(OldItems)}

OldQty(key) ==
    dict_get(OldItems[CHOOSE i \in 1..Len(OldItems) : dict_get(OldItems[i].v, "id").v = key].v,
             "qty").v

\* The primary key of the i-th new child, "None" when it carries none.
NewKey(i) ==
    IF has_key(NewItems[i].v, "id") THEN dict_get(NewItems[i].v, "id").v ELSE "None"

Keyless(i) == NewKey(i) = "None"

\* The i-th new child carries a key that no old child in the map has when
\* its turn comes: never stored, or matched and popped by an earlier child.
KeyedUnmatched(i) ==
    /\ ~Keyless(i)
    /\ \/ NewKey(i) \notin OldKeys
       \/ \E j \in 1..(i - 1) : NewKey(j) = NewKey(i)

\* The old keys that no new child carries.
UnmatchedOldKeys == OldKeys \ {NewKey(i) : i \in 1..Len(NewItems)}

\* C2: every new child whose primary key has no old child in the map (never
\* stored, or already popped) produces one Added entry, as every child
\* without a key does.
C2_UnmatchedKeyedChildAdded ==
    pc # "start" =>
        CountOf(ItemsNested, "added")
            = Cardinality({i \in 1..Len(NewItems) : Keyless(i) \/ KeyedUnmatched(i)})

\* C3: for every pair of snapshots, an empty new list too, the Deleted
\* entries are as many as the old children whose key no new child carries.
C3_OneDeletedPerUnmatchedOld ==
    pc # "start" =>
        CountOf(ItemsNested, "deleted") = Cardinality(UnmatchedOldKeys)

\* The old keys whose first new child differs from the stored child.
ChangedOldKeys ==
    {k \in OldKeys :
        \E i \in 1..Len(NewItems) :
            /\ NewKey(i) = k
            /\ \A j \in 1..(i - 1) : NewKey(j) # k
            /\ dict_get(NewItems[i].v, "qty").v # OldQty(k)}

AddedThenDeleted(n, m) ==
    [i \in 1..(n + m) |-> IF i <= n THEN [t |-> "added"] ELSE [t |-> "deleted"]]

\* C4: a new child without a primary key is classified Added without any
\* comparison: with such a child in the new list there is an Added entry for
\* each of them, the Changed entries are those of the keyed pairs alone, and
\* every old child no keyed new child matches still gets its Deleted entry;
\* when no new child carries a key the result is the Added entries followed
\* by one Deleted per old child.
C4_KeylessChildAdded ==
    (pc # "start" /\ \E i \in 1..Len(NewItems) : Keyless(i)) =>
        /\ CountOf(ItemsNested, "added")
              >= Cardinality({i \in 1..Len(NewItems) : Keyless(i)})
        /\ CountOf(ItemsNested, "changed") = Cardinality(ChangedOldKeys)
        /\ CountOf(ItemsNested, "deleted") = Cardinality(UnmatchedOldKeys)
        /\ (\A i \in 1..Len(NewItems) : Keyless(i)) =>
              ItemsNested = AddedThenDeleted(Len(NewItems), Len(OldItems))

\* A key-less new child with the content of the stored child: Added, and the
\* stored child Deleted.
C4_Witness ==
    /\ pc # "start"
    /\ Len(OldItems) = 1
    /\ Len(NewItems) = 1 /\ Keyless(1)
    /\ dict_get(NewItems[1].v, "qty").v = OldQty("1")
    /\ ItemsNested = <<[t |-> "added"], [t |-> "deleted"]>>

\* The document of the entry handed to persistence.
Persisted == operation_logs[1].change_message

\* Every leaf ChangeRecord of a document: the top-level ones and those of
\* the Changed entries of its nested fields.
TopLeaves(doc) ==
    IF doc = <<>> THEN {}
    ELSE {doc[1].changed[i] : i \in {j \in 1..Len(doc[1].changed) : doc[1].changed[j].t = "leaf"}}

NestedLeaves(doc) ==
    IF doc = <<>> THEN {}
    ELSE UNION { UNION { {e.changed[i] : i \in 1..Len(e.changed)} :
                         e \in {n.nested[i] : i \in {j \in 1..Len(n.nested) : n.nested[j].t = "changed"}} } :
                 n \in {doc[1].changed[i] : i \in {j \in 1..Len(doc[1].changed) : doc[1].changed[j].t = "nested"}} }

Masked(r) == r.old_value = CLEANED_SUBSTITUTE /\ r.new_value = CLEANED_SUBSTITUTE

\* C8: in the persisted document every leaf whose path or label is a
\* baseline sensitive name in any casing has both values masked.
C8_BaselineMaskedAnyCase ==
    pc = "logged" =>
        \A r \in TopLeaves(Persisted) \cup NestedLeaves(Persisted) :
            (Lower(r.field) \in BASELINE_SENSITIVE_FIELDS
                \/ Lower(r.label) \in BASELINE_SENSITIVE_FIELDS) => Masked(r)

\* C9: in the persisted document every leaf, top-level or inside a nested
\* Changed entry, whose path or label is one of the view's sensitive names
\* has both values masked.
C9_CallerNamesMaskedEveryDepth ==
    pc = "logged" =>
        \A r \in TopLeaves(Persisted) \cup NestedLeaves(Persisted) :
            (r.field \in sensitive_log_fields \/ r.label \in sensitive_log_fields)
                => Masked(r)

\* ----------------------------------------------------- claims on the read
\* C10: reading a log entry through the exclusion filter leaves the entry's
\* change_message as it was stored, whatever the exclusion list.
C10_FilterLeavesEntryUnchanged ==
    read_pc \in {"responded", "serialized"} => entry = stored

\* The nested fields of a document: the entries of its changed list that
\* carry a nested list.
NestedFields(doc) ==
    IF doc = <<>> \/ doc[1].t # "changed" THEN {}
    ELSE {doc[1].changed[i] :
            i \in {j \in 1..Len(doc[1].changed) : doc[1].changed[j].t = "nested"}}

\* The leaves inside the Changed entries of one nested field.
LeavesOfNested(n) ==
    UNION { {n.nested[i].changed[k] : k \in 1..Len(n.nested[i].changed)} :
            i \in {j \in 1..Len(n.nested) : n.nested[j].t = "changed"} }

\* The leaves inside the Changed entries of the nested fields of doc whose
\* field or label is name.
NestedLeavesNamed(doc, name) ==
    UNION {LeavesOfNested(n) : n \in {m \in NestedFields(doc) : m.field = name \/ m.label = name}}

\* The names sub of the entries "name[].sub" of an exclusion list.
PerChildSubs(excluded, name) ==
    {split_dot(excluded[i])[2] :
        i \in {j \in 1..Len(excluded) :
                 /\ Len(split_dot(excluded[j])) = 2
                 /\ split_dot(excluded[j])[1] = name \o "[]"}}

\* The exclusion list removes the nested field called name as a whole.
ExcludedAtTop(excluded, doc, name) ==
    \A n \in NestedFields(doc) :
        (n.field = name \/ n.label = name) =>
            in_list(n.field, excluded) \/ in_list(n.label, excluded)

\* C11: after a read through an exclusion list with entries "items[].sub",
\* no Changed entry of the nested field "items" of the filtered document
\* holds a leaf whose field or label is such a sub, and the leaves of that
\* nested field that are not named are all still there (unless the list
\* excludes the nested field itself).
C11_PerChildExclusionApplied ==
    (read_pc = "serialized" /\ PerChildSubs(excluded_log_fields, "items") # {}) =>
        LET subs == PerChildSubs(excluded_log_fields, "items")
            out == NestedLeavesNamed(response.change_message, "items")
        IN  /\ \A r \in out : r.field \notin subs /\ r.label \notin subs
            /\ ~ExcludedAtTop(excluded_log_fields, stored, "items") =>
                   \A r \in NestedLeavesNamed(stored, "items") :
                       (r.field \notin subs /\ r.label \notin subs) => r \in out

\* The same, for the lists that also hold a top-level entry.
C11_PerChildExclusionWithTopLevel ==
    (\E i \in 1..Len(excluded_log_fields) : Len(split_dot(excluded_log_fields[i])) = 1)
        => C11_PerChildExclusionApplied

\* C12: filtering the entry's document a second time with the same
\* exclusion list removes nothing: the document stays as the first
\* application left it.
C12_ExclusionIdempotent ==
    read_pc = "serialized" =>
        clean_excluded_fields(entry,
            format_excluded_fields(excluded_log_fields).level_1,
            format_excluded_fields(excluded_log_fields).level_2) = entry

\* A read whose first application removed a top-level leaf and a leaf of a
\* nested Changed entry.
C12_Witness ==
    /\ read_pc = "serialized"
    /\ stored # <<>> /\ stored[1].t = "changed"
    /\ TopLeaves(entry) # TopLeaves(stored)
    /\ NestedLeavesNamed(entry, "items") # NestedLeavesNamed(stored, "items")
    /\ NestedLeavesNamed(entry, "items") # {}

\* ------------------------------------------------ claims on the redaction
\* Every leaf of a document, at either depth.
AllLeaves(doc) == TopLeaves(doc) \cup NestedLeaves(doc)

\* C13: redacting the persisted, already redacted document again leaves it
\* unchanged, by clean_sensitive_data and by clean_data, with the baseline
\* names and with the view's names: masked leaves keep the same token and
\* the other leaves their values.
C13_RedactionIdempotent ==
    pc = "logged" =>
        /\ clean_sensitive_list(Persisted) = Persisted
        /\ clean_data_list(Persisted) = Persisted
        /\ \A r \in AllLeaves(Persisted) :
              LET once == clean_sensitive_data(r, sensitive_log_fields)
                  cleaned == clean_data(r, sensitive_log_fields)
              IN  /\ clean_sensitive_data(once, sensitive_log_fields) = once
                  /\ clean_data(cleaned, sensitive_log_fields) = cleaned
                  /\ Masked(r) => Masked(once) /\ Masked(cleaned)

\* A persisted document with a masked leaf, a leaf whose old value
\* clean_data parsed, and a nested leaf that is not masked.
C13_Witness ==
    /\ pc = "logged"
    /\ Persisted # <<>>
    /\ \E r \in TopLeaves(Persisted) : Masked(r)
    /\ \E r \in TopLeaves(Persisted) : r.old_value = "<list ['x']>"
    /\ \E r \in NestedLeaves(Persisted) : ~Masked(r)

\* ------------------------------------------ claims on the key sequences
\* C15: a call whose two maps do not have the same key sequence, in content
\* and in order, ends in an error and returns nothing; a key sequence that
\* is a strict prefix of the other included.
C15_KeyMismatchRaises ==
    (leaf_pc = "done" /\ ~SameKeySequence) => ret.t = "raise"

\* The same for two maps of one length: other content or other order.
C15_SameLengthMismatchRaises ==
    (leaf_pc = "done" /\ ~SameKeySequence /\ Len(old_data) = Len(new_data))
        => ret.t = "raise"

\* ------------------------------------------------ claims on the lifecycle
\* C14: every entry that joined the accumulator was recorded under a write
\* method, by an action that is not excluded and that is one of create,
\* update, partial_update and destroy.
C14_LoggedOnlyUnderThreeConditions ==
    appended # <<>> =>
        /\ method \in {"POST", "PUT", "PATCH", "DELETE"}
        /\ action \notin operationlog_action_exclude
        /\ action \in {"create", "update", "partial_update", "destroy"}

\* The first two of the three conditions alone.
C14_LoggedOnlyUnderWriteAndNotExcluded ==
    appended # <<>> =>
        /\ method \in {"POST", "PUT", "PATCH", "DELETE"}
        /\ action \notin operationlog_action_exclude

\* C16: once finalize_response has run, the accumulator is empty and every
\* entry that was appended has been signalled once and handed to bulk_create
\* once, in order; before that nothing has been flushed.
C16_FlushedExactlyOnce ==
    /\ life_pc = "finalized" =>
          /\ operation_logs = <<>>
          /\ signalled = appended
          /\ bulk_created = appended
    /\ life_pc # "finalized" => signalled = <<>> /\ bulk_created = <<>>
    /\ (life_pc = "handling" /\ hooks = 0) => operation_logs = <<>>

\* The same for the lifecycles that end in a response that is not an
\* exception, with persistence switched on.
C16_FlushedOnceOnSuccess ==
    (life_pc = "finalized" /\ ~response_exception /\ save_database) =>
        /\ operation_logs = <<>>
        /\ signalled = appended
        /\ bulk_created = appended

\* C17: every perform_update made with logging enabled extracts the old
\* state and completes the diff, and only then is the record written; no
\* write of the record comes before the reading.
C17_OldStateReadBeforeMutation ==
    should_log(method, action, operationlog_action_exclude) =>
        \A i \in 1..Len(events) :
            events[i] \in {"update", "update raised"} =>
                /\ events[i] = "update"
                /\ i > 1
                /\ events[i - 1] = "old state read"

====
